---------------------------- MODULE Spec2Model ----------------------------
(***************************************************************************)
(* Speaker attribution in avtools: the three sequence transformations that *)
(* turn diarization segments and transcript chunks into a speaker-labeled  *)
(* transcript.                                                             *)
(*                                                                         *)
(*   diarize_audio (src/avtools/pipelines/diarization.py, 87-120)          *)
(*       merges consecutive same-label segments into speaker turns;        *)
(*   post_process_segments_and_transcripts (same file, 123-162)            *)
(*       cuts the transcript at the chunk end nearest to each turn's end;  *)
(*   TranscriptionResultData.group_by_speaker (src/avtools/models.py,      *)
(*       118-148) merges adjacent same-speaker entries.                    *)
(*                                                                         *)
(* Each loop iteration of the three functions is one action.  Times are    *)
(* integers on a short axis, a text is a sequence of characters, and a     *)
(* missing end timestamp (Python None) is the value None.                  *)
(***************************************************************************)
EXTENDS Integers, Sequences, FiniteSets, TLC

VARIABLES
    pc,                \* the function that is running, "returned", or the
                       \* exception that left it ("IndexError", "ValueError")
    segments,          \* diarize_audio: the diarizer's (segment, label) list
    i,                 \* diarize_audio: the loop index (0-based, as in the code)
    prev_segment,      \* diarize_audio: first segment of the current run
    cur_segment,       \* diarize_audio: the segment under the loop index
    new_segments,      \* diarize_audio's result; post_process' first argument
    chunks,            \* post_process: the caller's transcript, as passed
    transcript,        \* post_process: the local name, cropped every iteration
    end_timestamps,    \* post_process: the cropped array of chunk ends
    group_by_speaker,  \* post_process: the mode flag
    seg_idx,           \* post_process: position of `segment` in new_segments (1-based)
    upto_idx,          \* post_process: the last np.argmin result (0-based)
    examined,          \* post_process: array elements np.argmin has read so far
    segmented_preds,   \* post_process: the result list
    speakers,          \* group_by_speaker: self.speakers
    spk_idx,           \* group_by_speaker: position of speaker_chunk (1-based)
    current_speaker,   \* group_by_speaker: the local of that name
    new_speaker_chunks,\* group_by_speaker: the list being built
    result,            \* group_by_speaker: the speakers of the returned result
    calls,             \* group_by_speaker: results returned so far, oldest first
    self_text,         \* TranscriptionResultData: self.text (outputs["text"])
    result_chunks,     \* TranscriptionResultData: the chunks of the built result
    result_text        \* TranscriptionResultData: the text of the built result

vars == <<pc, segments, i, prev_segment, cur_segment, new_segments, chunks,
          transcript, end_timestamps, group_by_speaker, seg_idx, upto_idx,
          examined, segmented_preds, speakers, spk_idx, current_speaker,
          new_speaker_chunks, result, calls, self_text, result_chunks,
          result_text>>

coalesceVars == <<segments, i, prev_segment, cur_segment>>
alignVars == <<chunks, transcript, end_timestamps, group_by_speaker, seg_idx,
               upto_idx, examined, segmented_preds>>
groupVars == <<speakers, spk_idx, current_speaker, new_speaker_chunks, result,
               calls, self_text, result_chunks, result_text>>

---------------------------------------------------------------------------
(* Bounds of the model. *)

MaxTime == 2
MaxSegs == 3
MaxTurns == 2
MaxChunks == 2
MaxTimestampLen == 3
MaxRaw == 2

Times == 0 .. MaxTime
Labels == {"SPEAKER_00", "SPEAKER_01"}

\* Python's None where a number is expected (a missing end timestamp, no
\* np.argmin result yet) and where a speaker name is expected.
None == -1
NoSpeaker == "None"

\* sys.float_info.max: larger than every time, by more than any two times differ.
FloatMax == 2 * MaxTime + 1

\* The characters texts are made of; chunk k of a transcript is the k-th word.
Alphabet == <<"a", "b", "c", "d", "e", "f">>
Space == " "
Word(k) == <<Alphabet[k]>>

Abs(x) == IF x < 0 THEN -x ELSE x

\* seq[from:] with a 0-based `from`, as Python slices.
SliceFrom(seq, from) == SubSeq(seq, from + 1, Len(seq))
\* seq[:to] with a 0-based, exclusive `to`.
SliceTo(seq, to) == SubSeq(seq, 1, to)

RECURSIVE JoinTexts(_)
\* "".join([chunk["text"] for chunk in seq])
JoinTexts(seq) ==
    IF Len(seq) = 0 THEN << >>
    ELSE seq[1].text \o JoinTexts(Tail(seq))

---------------------------------------------------------------------------
(* diarize_audio, lines 87-120: merging same-label segments into turns. *)

Segment(s, e, l) == [segment |-> [start |-> s, end |-> e], label |-> l]
NoSegment == Segment(0, 0, "")

\* What the diarizer yields, for a list of n segments: valid intervals in start
\* order; they may overlap, leave gaps, and repeat a label.
SegmentSeqs(n) ==
    { s \in [1 .. n -> {Segment(a, b, l) : a \in Times, b \in Times, l \in Labels}] :
        /\ \A k \in 1 .. n : s[k].segment.start <= s[k].segment.end
        /\ \A k \in 1 .. n - 1 : s[k].segment.start <= s[k + 1].segment.start }

\* A plausible slip: closing the run at the end of the segment that starts the
\* next run.
ClosedTurnAtCurEnd(prev, cur) ==
    [segment |-> [start |-> prev.segment.start, end |-> cur.segment.end],
     speaker |-> prev.label]

\* A plausible slip: the closed turn given the label of the segment that
\* starts the next run.
ClosedTurnCurLabel(prev, cur) ==
    [segment |-> [start |-> prev.segment.start, end |-> cur.segment.start],
     speaker |-> cur.label]

\* Lines 98-106: the turn appended when the label changes.
ClosedTurn(prev, cur) ==
    [segment |-> [start |-> prev.segment.start, end |-> cur.segment.start],
     speaker |-> prev.label]

\* A plausible slip: the last turn closed at the end of the run's first segment.
LastTurnAtPrevEnd(prev, cur) ==
    [segment |-> [start |-> prev.segment.start, end |-> prev.segment.end],
     speaker |-> prev.label]

\* Lines 110-118: the turn appended after the loop.
LastTurn(prev, cur) ==
    [segment |-> [start |-> prev.segment.start, end |-> cur.segment.end],
     speaker |-> prev.label]

\* A plausible slip: the empty list guarded, and no turns returned for it.
CoalesceStartReturnsEmpty ==
    /\ pc = "diarize_audio"
    /\ i = 0
    /\ IF Len(segments) = 0
       THEN /\ pc' = "returned"
            /\ UNCHANGED <<i, prev_segment, cur_segment>>
       ELSE /\ prev_segment' = segments[1]
            /\ cur_segment' = segments[1]
            /\ i' = 1
            /\ pc' = "diarize_audio"
    /\ UNCHANGED <<segments, new_segments>>
    /\ UNCHANGED alignVars
    /\ UNCHANGED groupVars

\* Line 90: prev_segment = cur_segment = segments[0]; an empty list has no [0]
\* and the subscript raises IndexError.
CoalesceStart ==
    /\ pc = "diarize_audio"
    /\ i = 0
    /\ IF Len(segments) = 0
       THEN /\ pc' = "IndexError"
            /\ UNCHANGED <<i, prev_segment, cur_segment>>
       ELSE /\ prev_segment' = segments[1]
            /\ cur_segment' = segments[1]
            /\ i' = 1
            /\ pc' = "diarize_audio"
    /\ UNCHANGED <<segments, new_segments>>
    /\ UNCHANGED alignVars
    /\ UNCHANGED groupVars

\* Lines 92-107: one iteration of `for i in range(1, len(segments))`.
CoalesceIter ==
    /\ pc = "diarize_audio"
    /\ i >= 1
    /\ i < Len(segments)
    /\ LET cur == segments[i + 1] IN
       /\ cur_segment' = cur
       /\ IF cur.label # prev_segment.label /\ i < Len(segments)
          THEN /\ new_segments' = Append(new_segments, ClosedTurn(prev_segment, cur))
               /\ prev_segment' = cur
          ELSE UNCHANGED <<new_segments, prev_segment>>
    /\ i' = i + 1
    /\ UNCHANGED <<pc, segments>>
    /\ UNCHANGED alignVars
    /\ UNCHANGED groupVars

\* Lines 109-120: the last turn, and the return.
CoalesceFinish ==
    /\ pc = "diarize_audio"
    /\ i >= 1
    /\ i >= Len(segments)
    /\ new_segments' = Append(new_segments, LastTurn(prev_segment, cur_segment))
    /\ pc' = "returned"
    /\ UNCHANGED <<segments, i, prev_segment, cur_segment>>
    /\ UNCHANGED alignVars
    /\ UNCHANGED groupVars

InitCoalesce ==
    /\ pc = "diarize_audio"
    /\ \E n \in 0 .. MaxSegs : segments \in SegmentSeqs(n)
    /\ i = 0
    /\ prev_segment = NoSegment
    /\ cur_segment = NoSegment
    /\ new_segments = << >>
    /\ chunks = << >>
    /\ transcript = << >>
    /\ end_timestamps = << >>
    /\ group_by_speaker = FALSE
    /\ seg_idx = 1
    /\ upto_idx = None
    /\ examined = 0
    /\ segmented_preds = << >>
    /\ speakers = << >>
    /\ spk_idx = 1
    /\ current_speaker = NoSpeaker
    /\ new_speaker_chunks = << >>
    /\ result = << >>
    /\ calls = << >>
    /\ self_text = << >>
    /\ result_chunks = << >>
    /\ result_text = << >>

NextCoalesce == CoalesceStart \/ CoalesceIter \/ CoalesceFinish

SpecCoalesce == InitCoalesce /\ [][NextCoalesce]_vars

---------------------------------------------------------------------------
(* post_process_segments_and_transcripts, lines 123-162: alignment. *)

Chunk(s, e, t) == [timestamp |-> <<s, e>>, text |-> t]
Turn(s, e, l) == [segment |-> [start |-> s, end |-> e], speaker |-> l]

\* What the transcriber yields, for n chunks, as (start, end) pairs: chunks in
\* start order, each with start <= end, possibly overlapping; only the last
\* chunk may lack its end.
ChunkTimes(n) ==
    { t \in [1 .. n -> Times \X (Times \cup {None})] :
        /\ \A k \in 1 .. n : IF t[k][2] = None THEN k = n ELSE t[k][1] <= t[k][2]
        /\ \A k \in 1 .. n - 1 : t[k][1] <= t[k + 1][1] }

\* The transcript with those times.  Chunk k carries the k-th word, so that a
\* text shows which chunks it was built from.
ChunkSeq(ts) == [k \in 1 .. Len(ts) |-> Chunk(ts[k][1], ts[k][2], Word(k))]

FirstLabel == "SPEAKER_00"

\* The turns a caller passes, for n turns, as (end, speaker) pairs: ends in
\* order, with any speakers after the first.  The function compares no speaker
\* names, so which name comes first makes no difference to it.
TurnEnds(n) ==
    { c \in [1 .. n -> Times \X Labels] :
        /\ \A k \in 1 .. n - 1 : c[k][1] <= c[k + 1][1]
        /\ n >= 1 => c[1][2] = FirstLabel }

\* The turns with those ends: consecutive intervals from the start of the
\* audio, as diarize_audio builds them (only ends and speakers are read).
TurnSeq(c) ==
    [k \in 1 .. Len(c) |-> Turn(IF k = 1 THEN 0 ELSE c[k - 1][1], c[k][1], c[k][2])]

\* A plausible slip: a missing end replaced by 0 (`or 0`) and not by the
\* largest float.
EndTimestampsZero(tr) ==
    [k \in 1 .. Len(tr) |->
        IF tr[k].timestamp[2] # None THEN tr[k].timestamp[2] ELSE 0]

\* Lines 125-130: chunk["timestamp"][-1], or sys.float_info.max for None.
EndTimestamps(tr) ==
    [k \in 1 .. Len(tr) |->
        IF tr[k].timestamp[2] # None THEN tr[k].timestamp[2] ELSE FloatMax]

\* Line 138: np.abs(end_timestamps - end_time).
AbsDiff(ends, end_time) == [k \in 1 .. Len(ends) |-> Abs(ends[k] - end_time)]

RECURSIVE ArgMinScan(_, _, _)
\* The scan behind np.argmin: the first position of the least value wins.
ArgMinScan(a, k, best) ==
    IF k > Len(a) THEN best
    ELSE ArgMinScan(a, k + 1, IF a[k] < a[best] THEN k ELSE best)

RECURSIVE ArgMinLastScan(_, _, _)
ArgMinLastScan(a, k, best) ==
    IF k > Len(a) THEN best
    ELSE ArgMinLastScan(a, k + 1, IF a[k] <= a[best] THEN k ELSE best)

\* A plausible slip: among equal least values the last position wins.
ArgMinLast(a) == ArgMinLastScan(a, 2, 1) - 1

\* np.argmin of a non-empty array, 0-based.
ArgMin(a) == ArgMinScan(a, 2, 1) - 1

\* A plausible slip: the crop taken from upto_idx, which leaves the cut chunk
\* in the list.
CropOneLess(seq, upto) == SliceFrom(seq, upto)

\* A plausible slip: the crop of line 156/157 left out.
CropNothing(seq, upto) == seq

\* Lines 156-157: seq[upto_idx + 1:].
Crop(seq, upto) == SliceFrom(seq, upto + 1)

\* A plausible slip: the join taken over the prefix without its last chunk,
\* transcript[:upto_idx].
GroupedPredShort(segment, tr, upto) ==
    [speaker |-> segment.speaker,
     text |-> JoinTexts(SliceTo(tr, upto)),
     timestamp |-> <<tr[1].timestamp[1], tr[upto + 1].timestamp[2]>>]

\* A plausible slip: the entry's start taken from the last claimed chunk and
\* its end from the first.
GroupedPredSwapped(segment, tr, upto) ==
    [speaker |-> segment.speaker,
     text |-> JoinTexts(SliceTo(tr, upto + 1)),
     timestamp |-> <<tr[upto + 1].timestamp[1], tr[1].timestamp[2]>>]

\* Lines 141-150: the one entry a turn gets in grouped mode.
GroupedPred(segment, tr, upto) ==
    [speaker |-> segment.speaker,
     text |-> JoinTexts(SliceTo(tr, upto + 1)),
     timestamp |-> <<tr[1].timestamp[1], tr[upto + 1].timestamp[2]>>]

\* A plausible slip: every entry of a turn built from the turn's first chunk.
UngroupedPredsFirst(segment, tr, upto) ==
    [k \in 1 .. upto + 1 |->
        [speaker |-> segment.speaker,
         timestamp |-> tr[1].timestamp,
         text |-> tr[1].text]]

\* A plausible slip: range(len(transcript)) for range(upto_idx + 1), so that a
\* turn is given every remaining chunk.
UngroupedPredsAll(segment, tr, upto) ==
    [k \in 1 .. Len(tr) |->
        [speaker |-> segment.speaker,
         timestamp |-> tr[k].timestamp,
         text |-> tr[k].text]]

\* Lines 152-153: {"speaker": segment["speaker"], **transcript[i]} for each
\* i in range(upto_idx + 1).
UngroupedPreds(segment, tr, upto) ==
    [k \in 1 .. upto + 1 |->
        [speaker |-> segment.speaker,
         timestamp |-> tr[k].timestamp,
         text |-> tr[k].text]]

\* Lines 135-157: the body of `for segment in new_segments`, from the locals
\* before the iteration to the locals after it.
AlignBody(segment, tr, ends, preds, grouped) ==
    LET end_time == segment.segment.end
        upto == ArgMin(AbsDiff(ends, end_time))
    IN  [upto_idx |-> upto,
         segmented_preds |->
             IF grouped
             THEN Append(preds, GroupedPred(segment, tr, upto))
             ELSE preds \o UngroupedPreds(segment, tr, upto),
         transcript |-> Crop(tr, upto),
         end_timestamps |-> Crop(ends, upto)]

\* A plausible slip of the count: one element read per call.
ExaminedOne(ends) == 1

\* Line 138: np.abs and np.argmin read every element of the array they get.
Examined(ends) == Len(ends)

\* A plausible slip: the test of lines 159-160 left out.
BreakLoopNever(ends) == FALSE

\* Lines 159-160: `if len(end_timestamps) == 0: break`.
BreakLoop(ends) == Len(ends) = 0

RECURSIVE AlignLoop(_, _, _, _, _, _)
AlignLoop(turns, t, tr, ends, preds, grouped) ==
    IF t > Len(turns) THEN preds
    ELSE LET after == AlignBody(turns[t], tr, ends, preds, grouped)
         IN  IF BreakLoop(after.end_timestamps) THEN after.segmented_preds
             ELSE AlignLoop(turns, t + 1, after.transcript, after.end_timestamps,
                            after.segmented_preds, grouped)

\* Lines 123-162: the list the function returns for turns and a non-empty
\* transcript (or for no turns).
PostProcess(turns, tr, grouped) ==
    AlignLoop(turns, 1, tr, EndTimestamps(tr), << >>, grouped)

\* A plausible slip: the claimed chunks deleted from the caller's list
\* (`del transcript[: upto_idx + 1]`) where line 156 takes a slice.
AlignIterInPlace ==
    /\ pc = "post_process"
    /\ seg_idx <= Len(new_segments)
    /\ Len(end_timestamps) > 0
    /\ LET after == AlignBody(new_segments[seg_idx], transcript, end_timestamps,
                              segmented_preds, group_by_speaker)
       IN  /\ upto_idx' = after.upto_idx
           /\ segmented_preds' = after.segmented_preds
           /\ transcript' = after.transcript
           /\ chunks' = after.transcript
           /\ end_timestamps' = after.end_timestamps
    /\ examined' = examined + Examined(end_timestamps)
    /\ seg_idx' = seg_idx + 1
    /\ pc' = IF BreakLoop(end_timestamps') \/ seg_idx' > Len(new_segments)
             THEN "returned" ELSE "post_process"
    /\ UNCHANGED <<new_segments, group_by_speaker>>
    /\ UNCHANGED coalesceVars
    /\ UNCHANGED groupVars

\* Lines 134-160: one iteration of `for segment in new_segments`, up to and
\* including the break test; the iteration that ends the loop returns.
AlignIter ==
    /\ pc = "post_process"
    /\ seg_idx <= Len(new_segments)
    /\ Len(end_timestamps) > 0
    /\ LET after == AlignBody(new_segments[seg_idx], transcript, end_timestamps,
                              segmented_preds, group_by_speaker)
       IN  /\ upto_idx' = after.upto_idx
           /\ segmented_preds' = after.segmented_preds
           /\ transcript' = after.transcript
           /\ end_timestamps' = after.end_timestamps
    /\ examined' = examined + Examined(end_timestamps)
    /\ seg_idx' = seg_idx + 1
    /\ pc' = IF BreakLoop(end_timestamps') \/ seg_idx' > Len(new_segments)
             THEN "returned" ELSE "post_process"
    /\ UNCHANGED <<new_segments, chunks, group_by_speaker>>
    /\ UNCHANGED coalesceVars
    /\ UNCHANGED groupVars

\* A plausible slip: the empty array guarded, and the empty list returned.
AlignRaiseReturnsEmpty ==
    /\ pc = "post_process"
    /\ seg_idx <= Len(new_segments)
    /\ Len(end_timestamps) = 0
    /\ pc' = "returned"
    /\ UNCHANGED <<new_segments>>
    /\ UNCHANGED coalesceVars
    /\ UNCHANGED alignVars
    /\ UNCHANGED groupVars

\* Line 138 on an empty array: np.argmin raises ValueError.
AlignRaise ==
    /\ pc = "post_process"
    /\ seg_idx <= Len(new_segments)
    /\ Len(end_timestamps) = 0
    /\ pc' = "ValueError"
    /\ UNCHANGED <<new_segments>>
    /\ UNCHANGED coalesceVars
    /\ UNCHANGED alignVars
    /\ UNCHANGED groupVars

\* A plausible slip: the chunks no turn claimed returned as entries without a
\* speaker.
AlignReturnSpeakerless ==
    /\ pc = "post_process"
    /\ seg_idx > Len(new_segments)
    /\ segmented_preds' = segmented_preds \o
           [k \in 1 .. Len(transcript) |->
               [speaker |-> NoSpeaker,
                timestamp |-> transcript[k].timestamp,
                text |-> transcript[k].text]]
    /\ pc' = "returned"
    /\ UNCHANGED <<new_segments, chunks, transcript, end_timestamps,
                   group_by_speaker, seg_idx, upto_idx, examined>>
    /\ UNCHANGED coalesceVars
    /\ UNCHANGED groupVars

\* Lines 134, 162: the loop has no (further) segment; the list is returned.
AlignReturn ==
    /\ pc = "post_process"
    /\ seg_idx > Len(new_segments)
    /\ pc' = "returned"
    /\ UNCHANGED <<new_segments>>
    /\ UNCHANGED coalesceVars
    /\ UNCHANGED alignVars
    /\ UNCHANGED groupVars


---------------------------------------------------------------------------
(* src/avtools/models.py: the transcription data models and group_by_speaker. *)

RECURSIVE LStrip(_)
LStrip(t) == IF Len(t) > 0 /\ t[1] = Space THEN LStrip(Tail(t)) ELSE t

RECURSIVE RStrip(_)
RStrip(t) ==
    IF Len(t) > 0 /\ t[Len(t)] = Space THEN RStrip(SubSeq(t, 1, Len(t) - 1)) ELSE t

\* Lines 61-66: trim_spaces, str.strip() on the text before validation.
Strip(t) == RStrip(LStrip(t))

\* A plausible slip: the check of lines 78-79 (end before start) left out.
ValidateTimestampNoOrder(ts) ==
    /\ Len(ts) = 2
    /\ ts[1] # None /\ ts[2] # None
    /\ ~(ts[1] < 0)
    /\ ~(ts[2] < 0)

\* Lines 43, 68-80: timestamp is a list[float] (None is no float) and
\* _validate_timestamp accepts exactly 0 <= start <= end.
ValidateTimestamp(ts) ==
    /\ Len(ts) = 2
    /\ ts[1] # None /\ ts[2] # None
    /\ ~(ts[1] < 0)
    /\ ~(ts[2] < 0)
    /\ ~(ts[2] < ts[1])

\* Lines 40-47: TranscriptionChunkData(timestamp=, text=), once validation
\* has passed.
TranscriptionChunkData(timestamp, text) ==
    [timestamp |-> timestamp, text |-> Strip(text)]

\* Lines 89-93: TranscriptionSpeakerData(speaker=, timestamp=, text=), once
\* validation has passed.
TranscriptionSpeakerData(speaker, timestamp, text) ==
    [speaker |-> speaker, timestamp |-> timestamp, text |-> Strip(text)]

\* The speaker entries a TranscriptionResultData can hold, for n entries, as
\* (speaker, start, end, has text) tuples: validated timestamps in start order,
\* with any speakers.
SpeakerTuples(n) ==
    { d \in [1 .. n -> Labels \X Times \X Times \X BOOLEAN] :
        /\ \A k \in 1 .. n : ValidateTimestamp(<<d[k][2], d[k][3]>>)
        /\ \A k \in 1 .. n - 1 : d[k][2] <= d[k + 1][2] }

\* The entries for those tuples; the k-th text is empty or the k-th word.
SpeakerSeq(d) ==
    [k \in 1 .. Len(d) |->
        TranscriptionSpeakerData(d[k][1], <<d[k][2], d[k][3]>>,
                                 IF d[k][4] THEN Word(k) ELSE << >>)]

\* The chunks of that TranscriptionResultData: the same entries, unlabeled.
ChunkDataSeq(d) ==
    [k \in 1 .. Len(d) |->
        TranscriptionChunkData(<<d[k][2], d[k][3]>>,
                               IF d[k][4] THEN Word(k) ELSE << >>)]

\* A plausible slip: the separator added whether or not text was accumulated.
MergedTextAlwaysSpace(acc, text) == acc \o <<Space>> \o text

\* Lines 140-143: the run's text after one more chunk.
MergedText(acc, text) == IF Len(acc) > 0 THEN acc \o <<Space>> \o text ELSE text

\* A plausible slip: the run's interval restarted at every chunk.
MergedTimestampRestart(run, speaker_chunk) == speaker_chunk.timestamp

\* Lines 136-139: [new_speaker_chunks[-1].start_time, speaker_chunk.end_time].
MergedTimestamp(run, speaker_chunk) == <<run.timestamp[1], speaker_chunk.timestamp[2]>>

\* A plausible slip: a new run opened for every chunk.
OpensRunAlways(current, speaker_chunk) == TRUE

\* Line 127: a chunk opens a new run when its speaker is not the current one.
OpensRun(current, speaker_chunk) == current # speaker_chunk.speaker

\* Lines 127-143: the body of `for speaker_chunk in self.speakers`, from the
\* list built so far and current_speaker to the list after the iteration.
GroupIter(list, current, speaker_chunk) ==
    LET opened ==
            IF OpensRun(current, speaker_chunk)
            THEN Append(list, TranscriptionSpeakerData(speaker_chunk.speaker,
                                                       speaker_chunk.timestamp, << >>))
            ELSE list
        run == opened[Len(opened)]
    IN  [opened EXCEPT ![Len(opened)] =
            [speaker |-> run.speaker,
             timestamp |-> MergedTimestamp(run, speaker_chunk),
             text |-> MergedText(run.text, speaker_chunk.text)]]

RECURSIVE GroupLoop(_, _, _, _)
GroupLoop(spks, k, list, current) ==
    IF k > Len(spks) THEN list
    ELSE GroupLoop(spks, k + 1, GroupIter(list, current, spks[k]), spks[k].speaker)

\* Lines 118-148: the speakers of the result group_by_speaker returns.
GroupBySpeaker(spks) ==
    IF Len(spks) = 0 THEN spks ELSE GroupLoop(spks, 1, << >>, NoSpeaker)

\* A plausible slip: an empty result returned where line 122 returns self.
GroupReturnSelfEmpty ==
    /\ pc = "group_by_speaker"
    /\ Len(speakers) = 0
    /\ result' = << >>
    /\ result_chunks' = << >>
    /\ result_text' = << >>
    /\ calls' = Append(calls, << >>)
    /\ pc' = "returned"
    /\ UNCHANGED <<speakers, spk_idx, current_speaker, new_speaker_chunks, self_text>>
    /\ UNCHANGED <<new_segments>>
    /\ UNCHANGED coalesceVars
    /\ UNCHANGED alignVars

\* Lines 121-122: without speaker data the result is self.
GroupReturnSelf ==
    /\ pc = "group_by_speaker"
    /\ Len(speakers) = 0
    /\ result' = speakers
    /\ result_chunks' = chunks
    /\ result_text' = self_text
    /\ calls' = Append(calls, speakers)
    /\ pc' = "returned"
    /\ UNCHANGED <<speakers, spk_idx, current_speaker, new_speaker_chunks, self_text>>
    /\ UNCHANGED <<new_segments>>
    /\ UNCHANGED coalesceVars
    /\ UNCHANGED alignVars

\* A plausible slip: the chunk that opens a run appended itself, not a copy of
\* it, so that the merges of lines 136-143 land in the input entry too.
GroupChunkAliased ==
    /\ pc = "group_by_speaker"
    /\ Len(speakers) > 0
    /\ spk_idx <= Len(speakers)
    /\ new_speaker_chunks' = GroupIter(new_speaker_chunks, current_speaker, speakers[spk_idx])
    /\ LET opener == CHOOSE k \in 1 .. spk_idx :
                         /\ \A m \in k .. spk_idx : speakers[m].speaker = speakers[k].speaker
                         /\ k = 1 \/ speakers[k - 1].speaker # speakers[k].speaker
       IN  speakers' = [speakers EXCEPT ![opener] =
                           new_speaker_chunks'[Len(new_speaker_chunks')]]
    /\ current_speaker' = speakers[spk_idx].speaker
    /\ spk_idx' = spk_idx + 1
    /\ UNCHANGED <<pc, result, calls, self_text, result_chunks, result_text>>
    /\ UNCHANGED <<new_segments>>
    /\ UNCHANGED coalesceVars
    /\ UNCHANGED alignVars

\* Lines 126-143: one iteration of the loop.
GroupChunk ==
    /\ pc = "group_by_speaker"
    /\ Len(speakers) > 0
    /\ spk_idx <= Len(speakers)
    /\ new_speaker_chunks' = GroupIter(new_speaker_chunks, current_speaker, speakers[spk_idx])
    /\ current_speaker' = speakers[spk_idx].speaker
    /\ spk_idx' = spk_idx + 1
    /\ UNCHANGED <<pc, speakers, result, calls, self_text, result_chunks,
                   result_text>>
    /\ UNCHANGED <<new_segments>>
    /\ UNCHANGED coalesceVars
    /\ UNCHANGED alignVars

\* Lines 144-148: the new result, built around new_speaker_chunks.
GroupReturn ==
    /\ pc = "group_by_speaker"
    /\ Len(speakers) > 0
    /\ spk_idx > Len(speakers)
    /\ result' = new_speaker_chunks
    /\ result_chunks' = chunks
    /\ result_text' = Strip(self_text)
    /\ calls' = Append(calls, new_speaker_chunks)
    /\ pc' = "returned"
    /\ UNCHANGED <<speakers, spk_idx, current_speaker, new_speaker_chunks, self_text>>
    /\ UNCHANGED <<new_segments>>
    /\ UNCHANGED coalesceVars
    /\ UNCHANGED alignVars

\* group_by_speaker called on the result a first call returned.
GroupAgain ==
    /\ pc = "returned"
    /\ Len(calls) = 1
    /\ speakers' = result
    /\ spk_idx' = 1
    /\ current_speaker' = NoSpeaker
    /\ new_speaker_chunks' = << >>
    /\ pc' = "group_by_speaker"
    /\ self_text' = result_text
    /\ UNCHANGED <<result, calls, result_chunks, result_text>>
    /\ UNCHANGED <<new_segments>>
    /\ UNCHANGED coalesceVars
    /\ UNCHANGED alignVars

InitGroup ==
    /\ pc = "group_by_speaker"
    /\ \E n \in 0 .. MaxChunks : \E d \in SpeakerTuples(n) :
          /\ chunks = ChunkDataSeq(d)
          /\ speakers \in {SpeakerSeq(d), << >>}
    /\ spk_idx = 1
    /\ current_speaker = NoSpeaker
    /\ new_speaker_chunks = << >>
    /\ result = << >>
    /\ calls = << >>
    /\ self_text = Strip(JoinTexts(chunks))
    /\ result_chunks = << >>
    /\ result_text = << >>
    /\ segments = << >>
    /\ i = 0
    /\ prev_segment = NoSegment
    /\ cur_segment = NoSegment
    /\ new_segments = << >>
    /\ transcript = << >>
    /\ end_timestamps = << >>
    /\ group_by_speaker = FALSE
    /\ seg_idx = 1
    /\ upto_idx = None
    /\ examined = 0
    /\ segmented_preds = << >>

NextGroup == GroupReturnSelf \/ GroupChunk \/ GroupReturn \/ GroupAgain

SpecGroup == InitGroup /\ [][NextGroup]_vars

---------------------------------------------------------------------------
(* Construction of the data models from raw values (models.py, 40-93). *)

\* A negative time, as a raw value may hold.
Negative == -2

\* The values a raw timestamp list may hold.
RawTimes == Times \cup {None, Negative}

\* The raw texts: empty, a word, a word between spaces.
RawTexts == {<< >>, Word(1), <<Space>> \o Word(1) \o <<Space>>}

\* TranscriptionChunkData(**chunk) on the raw chunk: the validators run, and
\* the object exists only if they pass.
ConstructChunkData ==
    /\ pc = "construct"
    /\ IF ValidateTimestamp(chunks[1].timestamp)
       THEN /\ result' = <<TranscriptionChunkData(chunks[1].timestamp, chunks[1].text)>>
            /\ pc' = "constructed"
       ELSE /\ pc' = "ValidationError"
            /\ UNCHANGED result
    /\ UNCHANGED <<chunks, transcript, end_timestamps, group_by_speaker, seg_idx,
                   upto_idx, examined, segmented_preds, new_segments>>
    /\ UNCHANGED <<speakers, spk_idx, current_speaker, new_speaker_chunks, calls,
                   self_text, result_chunks, result_text>>
    /\ UNCHANGED coalesceVars

\* TranscriptionSpeakerData(speaker=, **chunk): the inherited validators run.
ConstructSpeakerData ==
    /\ pc = "construct"
    /\ \E speaker \in Labels :
          IF ValidateTimestamp(chunks[1].timestamp)
          THEN /\ result' = <<TranscriptionSpeakerData(speaker, chunks[1].timestamp,
                                                        chunks[1].text)>>
               /\ pc' = "constructed"
          ELSE /\ pc' = "ValidationError"
               /\ UNCHANGED result
    /\ UNCHANGED <<chunks, transcript, end_timestamps, group_by_speaker, seg_idx,
                   upto_idx, examined, segmented_preds, new_segments>>
    /\ UNCHANGED <<speakers, spk_idx, current_speaker, new_speaker_chunks, calls,
                   self_text, result_chunks, result_text>>
    /\ UNCHANGED coalesceVars

InitConstruct ==
    /\ pc = "construct"
    /\ \E n \in 0 .. MaxTimestampLen : \E ts \in [1 .. n -> RawTimes] :
          \E text \in RawTexts : chunks = <<[timestamp |-> ts, text |-> text]>>
    /\ transcript = << >>
    /\ end_timestamps = << >>
    /\ group_by_speaker = FALSE
    /\ seg_idx = 1
    /\ upto_idx = None
    /\ examined = 0
    /\ segmented_preds = << >>
    /\ new_segments = << >>
    /\ segments = << >>
    /\ i = 0
    /\ prev_segment = NoSegment
    /\ cur_segment = NoSegment
    /\ speakers = << >>
    /\ spk_idx = 1
    /\ current_speaker = NoSpeaker
    /\ new_speaker_chunks = << >>
    /\ result = << >>
    /\ calls = << >>
    /\ self_text = << >>
    /\ result_chunks = << >>
    /\ result_text = << >>

NextConstruct == ConstructChunkData \/ ConstructSpeakerData

SpecConstruct == InitConstruct /\ [][NextConstruct]_vars

---------------------------------------------------------------------------
(* The caller of both: run passes group_by_speaker=False (diarization.py,  *)
(* 193-195); execute holds the returned list as the speakers of a          *)
(* TranscriptionResultData and groups it for the text output.              *)

\* post_process_segments_and_transcripts has returned: its loop has run, or
\* there was no turn to run it on (diarize_audio returns one turn at least, and
\* seg_idx is 1 until the loop runs).
PostProcessReturned ==
    /\ pc = "returned"
    /\ seg_idx > 1 \/ Len(new_segments) = 0

\* _build_result and result.group_by_speaker(): every returned entry is
\* validated as a TranscriptionSpeakerData and every transcript chunk as a
\* TranscriptionChunkData, and the whole construction is rejected if one fails;
\* otherwise the result is grouped.
BuildAndGroup ==
    /\ PostProcessReturned
    /\ ~group_by_speaker
    /\ Len(calls) = 0
    /\ IF /\ \A k \in 1 .. Len(segmented_preds) :
                ValidateTimestamp(segmented_preds[k].timestamp)
          /\ \A k \in 1 .. Len(chunks) : ValidateTimestamp(chunks[k].timestamp)
       THEN LET built == [k \in 1 .. Len(segmented_preds) |->
                            TranscriptionSpeakerData(segmented_preds[k].speaker,
                                                     segmented_preds[k].timestamp,
                                                     segmented_preds[k].text)]
            IN  /\ speakers' = built
                /\ result' = GroupBySpeaker(built)
                /\ result_chunks' =
                      [k \in 1 .. Len(chunks) |->
                          TranscriptionChunkData(chunks[k].timestamp, chunks[k].text)]
                /\ result_text' = Strip(self_text)
                /\ calls' = <<GroupBySpeaker(built)>>
                /\ pc' = "grouped"
       ELSE /\ pc' = "rejected"
            /\ UNCHANGED <<speakers, result, calls, result_chunks, result_text>>
    /\ UNCHANGED <<spk_idx, current_speaker, new_speaker_chunks, self_text>>
    /\ UNCHANGED <<new_segments>>
    /\ UNCHANGED coalesceVars
    /\ UNCHANGED alignVars

\* The call post_process_segments_and_transcripts(new_segments, transcript,
\* group_by_speaker), after lines 125-131.
InitAlign ==
    /\ pc = "post_process"
    /\ \E n \in 0 .. MaxChunks : \E ts \in ChunkTimes(n) : chunks = ChunkSeq(ts)
    /\ \E n \in 0 .. MaxTurns : \E c \in TurnEnds(n) : new_segments = TurnSeq(c)
    /\ transcript = chunks
    /\ end_timestamps = EndTimestamps(chunks)
    /\ group_by_speaker \in BOOLEAN
    /\ seg_idx = 1
    /\ upto_idx = None
    /\ examined = 0
    /\ segmented_preds = << >>
    /\ segments = << >>
    /\ i = 0
    /\ prev_segment = NoSegment
    /\ cur_segment = NoSegment
    /\ speakers = << >>
    /\ spk_idx = 1
    /\ current_speaker = NoSpeaker
    /\ new_speaker_chunks = << >>
    /\ result = << >>
    /\ calls = << >>
    /\ self_text = JoinTexts(chunks)
    /\ result_chunks = << >>
    /\ result_text = << >>

NextAlign == AlignIter \/ AlignRaise \/ AlignReturn \/ BuildAndGroup

SpecAlign == InitAlign /\ [][NextAlign]_vars

---------------------------------------------------------------------------
(* run (diarization.py, 165-195) and execute on raw model outputs: the turns *)
(* diarize_audio returns go to post_process_segments_and_transcripts with    *)
(* the transcriber's chunks, and no interval is looked at on the way.        *)

\* The intervals a raw segment or chunk may carry: two well-formed ones, one
\* that ends before it starts, one that starts at a negative time.
RawIntervals == {<<0, 1>>, <<1, 1>>, <<1, 0>>, <<Negative, 0>>}

RawSegmentSeqs(n) ==
    [1 .. n -> {Segment(t[1], t[2], l) : t \in RawIntervals, l \in Labels}]

RawChunkTimes(n) == [1 .. n -> RawIntervals]

\* Lines 193-195 and 125-131: the call with diarize_audio's turns, the chunks
\* and group_by_speaker=False.
CallPostProcess ==
    /\ pc = "returned"
    /\ ~PostProcessReturned
    /\ pc' = "post_process"
    /\ transcript' = chunks
    /\ end_timestamps' = EndTimestamps(chunks)
    /\ group_by_speaker' = FALSE
    /\ seg_idx' = 1
    /\ upto_idx' = None
    /\ examined' = 0
    /\ segmented_preds' = << >>
    /\ UNCHANGED <<new_segments, chunks>>
    /\ UNCHANGED coalesceVars
    /\ UNCHANGED groupVars

InitRun ==
    /\ pc = "diarize_audio"
    /\ \E n \in 0 .. MaxRaw : segments \in RawSegmentSeqs(n)
    /\ \E n \in 0 .. MaxRaw : \E ts \in RawChunkTimes(n) : chunks = ChunkSeq(ts)
    /\ i = 0
    /\ prev_segment = NoSegment
    /\ cur_segment = NoSegment
    /\ new_segments = << >>
    /\ transcript = << >>
    /\ end_timestamps = << >>
    /\ group_by_speaker = FALSE
    /\ seg_idx = 1
    /\ upto_idx = None
    /\ examined = 0
    /\ segmented_preds = << >>
    /\ speakers = << >>
    /\ spk_idx = 1
    /\ current_speaker = NoSpeaker
    /\ new_speaker_chunks = << >>
    /\ result = << >>
    /\ calls = << >>
    /\ self_text = JoinTexts(chunks)
    /\ result_chunks = << >>
    /\ result_text = << >>

NextRun ==
    \/ CoalesceStart
    \/ CoalesceIter
    \/ CoalesceFinish
    \/ CallPostProcess
    \/ AlignIter
    \/ AlignRaise
    \/ BuildAndGroup

SpecRun == InitRun /\ [][NextRun]_vars

---------------------------------------------------------------------------
(* The three stages, each called on its own on inputs of its own: a         *)
(* behaviour is a call of diarize_audio, a call of                          *)
(* post_process_segments_and_transcripts followed by the build of the       *)
(* result, or calls of group_by_speaker.                                    *)

InitStages == InitCoalesce \/ InitAlign \/ InitGroup

NextStages == NextCoalesce \/ NextAlign \/ NextGroup

SpecStages == InitStages /\ [][NextStages]_vars

---------------------------------------------------------------------------
(* The reference the alignment claims are stated against: which chunks each *)
(* turn claims, read off the caller's turns and chunks alone.               *)

\* Distance of chunk k's end from turn t's end; an unknown end is farther than
\* every known one.
EndDistance(k, t) ==
    IF chunks[k].timestamp[2] = None THEN 2 * MaxTime + 2
    ELSE Abs(chunks[k].timestamp[2] - new_segments[t].segment.end)

\* With chunks 1..n claimed, the chunk turn t cuts at: nearest end among the
\* rest, the earliest of the nearest.
CutOf(n, t) ==
    CHOOSE k \in n + 1 .. Len(chunks) :
        /\ \A j \in n + 1 .. Len(chunks) : EndDistance(k, t) <= EndDistance(j, t)
        /\ \A j \in n + 1 .. k - 1 : EndDistance(k, t) < EndDistance(j, t)

RECURSIVE ClaimedAfter(_)
\* The number of chunks claimed once turns 1..t have been processed.
ClaimedAfter(t) ==
    IF t = 0 THEN 0
    ELSE LET n == ClaimedAfter(t - 1)
         IN  IF n >= Len(chunks) THEN n ELSE CutOf(n, t)

\* Turns processed so far by the running or finished call.
Processed == seg_idx - 1

\* The turn that claims chunk k.
ClaimingTurn(k) ==
    CHOOSE t \in 1 .. Len(new_segments) : ClaimedAfter(t - 1) < k /\ k <= ClaimedAfter(t)

\* How many times chunk k's word occurs in the texts of the output.
Occurrences(k) ==
    Cardinality({ <<j, q>> \in (1 .. Len(segmented_preds)) \X (1 .. MaxChunks + 1) :
                    /\ q <= Len(segmented_preds[j].text)
                    /\ segmented_preds[j].text[q] = Alphabet[k] })

\* (speaker, start, end) of every entry.
Triples(seq) ==
    [k \in 1 .. Len(seq) |-> <<seq[k].speaker, seq[k].timestamp[1], seq[k].timestamp[2]>>]

AdjacentSpeakersDiffer(turns) ==
    \A k \in 1 .. Len(turns) - 1 : turns[k].speaker # turns[k + 1].speaker

SegmentsDisjoint ==
    \A k \in 1 .. Len(segments) - 1 :
        segments[k].segment.end <= segments[k + 1].segment.start

ChunksDisjoint ==
    \A k \in 1 .. Len(chunks) - 1 :
        /\ chunks[k].timestamp[2] # None
        /\ chunks[k].timestamp[2] <= chunks[k + 1].timestamp[1]

---------------------------------------------------------------------------
(* The reference the coalescing claims are stated against: the runs of equal *)
(* labels, read off the diarizer's segments alone.                           *)

\* The positions among the first n segments whose label differs from the one
\* before, together with the first position: where the runs begin.
RunStarts(n) ==
    {k \in 1 .. n : k = 1 \/ segments[k].label # segments[k - 1].label}

\* The position at which the j-th of those runs begins.
RunStart(n, j) ==
    CHOOSE k \in RunStarts(n) : Cardinality({m \in RunStarts(n) : m < k}) = j - 1

---------------------------------------------------------------------------
(* The reference the grouping claims are stated against: the runs of equal  *)
(* speakers, read off the entries group_by_speaker was called on.           *)

\* The positions among the first n entries whose speaker differs from the one
\* before, together with the first position.
SpeakerRunStarts(n) ==
    {k \in 1 .. n : k = 1 \/ speakers[k].speaker # speakers[k - 1].speaker}

\* The positions at which the j-th of those runs begins and ends.
SpeakerRunStart(n, j) ==
    CHOOSE k \in SpeakerRunStarts(n) :
        Cardinality({m \in SpeakerRunStarts(n) : m < k}) = j - 1

SpeakerRunEnd(n, j) ==
    IF j = Cardinality(SpeakerRunStarts(n)) THEN n ELSE SpeakerRunStart(n, j + 1) - 1

RECURSIVE SpacedTexts(_, _)
\* The texts of entries a..b, each after the first put behind one space, and
\* put as it is while nothing has been accumulated.
SpacedTexts(a, b) ==
    IF b < a THEN << >>
    ELSE LET acc == SpacedTexts(a, b - 1)
         IN  IF acc = << >> THEN speakers[b].text
             ELSE acc \o <<Space>> \o speakers[b].text

---------------------------------------------------------------------------
(* Structural validity of intervals, as the claims on malformed input use it. *)

WellFormed(start, end) == 0 <= start /\ start <= end

MalformedSegments ==
    {k \in 1 .. Len(segments) :
        ~WellFormed(segments[k].segment.start, segments[k].segment.end)}

MalformedTurns ==
    {k \in 1 .. Len(new_segments) :
        ~WellFormed(new_segments[k].segment.start, new_segments[k].segment.end)}

MalformedChunks ==
    {k \in 1 .. Len(chunks) :
        ~WellFormed(chunks[k].timestamp[1], chunks[k].timestamp[2])}

MalformedPreds ==
    {k \in 1 .. Len(segmented_preds) :
        ~WellFormed(segmented_preds[k].timestamp[1], segmented_preds[k].timestamp[2])}

\* The one-letter chunk texts of t, joined by single spaces.
SpacedLetters(t) ==
    [q \in 1 .. 2 * Len(t) - 1 |-> IF q % 2 = 1 THEN t[(q + 1) \div 2] ELSE Space]

---------------------------------------------------------------------------
(* Claims. *)

\* C1: for a non-empty, start-ordered, non-overlapping segment list the turns
\* diarize_audio returns are contiguous (each turn ends where the next starts)
\* and span from the first segment's start to the last segment's end.
C1_TurnsContiguousAndCovering ==
    (pc = "returned" /\ Len(segments) > 0 /\ SegmentsDisjoint) =>
        /\ Len(new_segments) > 0
        /\ \A k \in 1 .. Len(new_segments) - 1 :
              new_segments[k].segment.end = new_segments[k + 1].segment.start
        /\ new_segments[1].segment.start = segments[1].segment.start
        /\ new_segments[Len(new_segments)].segment.end =
              segments[Len(segments)].segment.end

\* C1 witness: a returned call on disjoint segments with a gap before a speaker
\* change, which produced two or more turns.
C1_Witness ==
    /\ pc = "returned"
    /\ SegmentsDisjoint
    /\ Len(new_segments) >= 2
    /\ \E k \in 1 .. Len(segments) - 1 :
          /\ segments[k].label # segments[k + 1].label
          /\ segments[k].segment.end < segments[k + 1].segment.start

\* C2 as claimed: after a call with turns and chunks, every input chunk is
\* attributed exactly once in the output.
C2_EveryChunkAttributedOnce ==
    (pc = "returned" /\ Len(new_segments) > 0 /\ Len(chunks) > 0) =>
        \A k \in 1 .. Len(chunks) : Occurrences(k) = 1

\* C2 as amended: no chunk is attributed twice, and the chunks attributed (once
\* each) are exactly the ones the turns claimed, a non-empty prefix of the
\* input; the chunks left when the turns run out are in no output entry.
C2_ClaimedChunksAttributedOnce ==
    (pc = "returned" /\ Len(new_segments) > 0 /\ Len(chunks) > 0) =>
        LET claimed == ClaimedAfter(Len(new_segments)) IN
        /\ claimed >= 1
        /\ \A k \in 1 .. Len(chunks) :
              Occurrences(k) = IF k <= claimed THEN 1 ELSE 0

\* C2 witness: a returned call that claimed some chunks and left another.
C2_Witness ==
    /\ pc = "returned"
    /\ Len(new_segments) > 0
    /\ Len(segmented_preds) > 0
    /\ Len(transcript) > 0

C4_GroupIdempotent ==
    Len(calls) = 2 => calls[2] = calls[1]

\* C4 witness: a second call has returned, on a first result in which a run of
\* two chunks had been merged.
C4_Witness ==
    /\ Len(calls) = 2
    /\ \E k \in 1 .. Len(calls[1]) :
          \E q \in 1 .. Len(calls[1][k].text) : calls[1][k].text[q] = Space

\* C5: in grouped mode the output texts, concatenated in order, are the texts
\* of the claimed chunks concatenated in order.
C5_GroupedTextIsClaimedText ==
    group_by_speaker =>
        JoinTexts(segmented_preds) = JoinTexts(SliceTo(chunks, ClaimedAfter(Processed)))

\* C5 witness: a grouped call in which a turn claimed two chunks, whose texts
\* were joined.
C5_Witness ==
    /\ group_by_speaker
    /\ pc = "returned"
    /\ \E k \in 1 .. Len(segmented_preds) : Len(segmented_preds[k].text) >= 2

\* C6: the starts of the output entries never decrease, in either mode.
C6_OutputStartsMonotonic ==
    pc \in {"post_process", "returned"} =>
        \A k \in 1 .. Len(segmented_preds) - 1 :
            segmented_preds[k].timestamp[1] <= segmented_preds[k + 1].timestamp[1]

\* C6 witness: an output of two entries or more whose starts strictly grow.
C6_Witness ==
    /\ pc = "returned"
    /\ Len(segmented_preds) >= 2
    /\ segmented_preds[1].timestamp[1] < segmented_preds[2].timestamp[1]

\* C7: for start-ordered, pairwise non-overlapping chunks every output entry
\* ends no later than the next one starts, in either mode.
C7_OutputDisjoint ==
    (pc \in {"post_process", "returned"} /\ ChunksDisjoint) =>
        \A k \in 1 .. Len(segmented_preds) - 1 :
            /\ segmented_preds[k].timestamp[2] # None
            /\ segmented_preds[k].timestamp[2] <= segmented_preds[k + 1].timestamp[1]

\* C7 witness: disjoint chunks with a gap between them, and an output of two
\* entries.
C7_Witness ==
    /\ pc = "returned"
    /\ ChunksDisjoint
    /\ Len(segmented_preds) >= 2
    /\ segmented_preds[1].timestamp[2] < segmented_preds[2].timestamp[1]

\* C8: the cut a turn makes is at a remaining chunk whose end is nearest to the
\* turn's end, the earliest such chunk when several are equally near, and the
\* turn takes every remaining chunk up to and including it.
C8_CutAtNearestEndEarliestOnTies ==
    (pc \in {"post_process", "returned"} /\ Processed >= 1) =>
        LET t == Processed
            cut == Len(chunks) - Len(transcript)
            before == cut - (upto_idx + 1)
        IN  /\ upto_idx >= 0
            /\ before = ClaimedAfter(t - 1)
            /\ cut <= Len(chunks)
            /\ \A j \in before + 1 .. Len(chunks) : EndDistance(cut, t) <= EndDistance(j, t)
            /\ \A j \in before + 1 .. cut - 1 : EndDistance(cut, t) < EndDistance(j, t)
            /\ transcript = SliceFrom(chunks, cut)

\* C8 witness: a turn whose end was equally near to the ends of two remaining
\* chunks, and which cut at the earlier one.
C8_Witness ==
    /\ pc \in {"post_process", "returned"}
    /\ Processed >= 1
    /\ LET cut == Len(chunks) - Len(transcript) IN
       \E j \in cut + 1 .. Len(chunks) :
           EndDistance(j, Processed) = EndDistance(cut, Processed)

\* C9: in grouped mode the output has one entry per processed turn, in turn
\* order: the turn's speaker, from the start of its first claimed chunk to the
\* end of its last, with the claimed texts joined without a separator.
C9_GroupedEntryPerTurn ==
    (group_by_speaker /\ pc \in {"post_process", "returned"}) =>
        /\ Len(segmented_preds) = Processed
        /\ \A t \in 1 .. Len(segmented_preds) :
              LET first == ClaimedAfter(t - 1) + 1
                  last == ClaimedAfter(t)
              IN  /\ first <= last
                  /\ segmented_preds[t].speaker = new_segments[t].speaker
                  /\ segmented_preds[t].timestamp =
                        <<chunks[first].timestamp[1], chunks[last].timestamp[2]>>
                  /\ segmented_preds[t].text = JoinTexts(SubSeq(chunks, first, last))

\* C9 witness: a grouped call in which two turns of different speakers each
\* claimed chunks.
C9_Witness ==
    /\ group_by_speaker
    /\ pc = "returned"
    /\ Processed = 2
    /\ Len(segmented_preds) = 2
    /\ segmented_preds[1].speaker # segmented_preds[2].speaker

\* C10: in ungrouped mode the output has one entry per claimed chunk, in chunk
\* order, with the chunk's timestamp and text and the claiming turn's speaker;
\* without the speakers it is a prefix of the input chunks.
C10_UngroupedEntryPerChunk ==
    (~group_by_speaker /\ pc \in {"post_process", "returned"}) =>
        /\ Len(segmented_preds) = ClaimedAfter(Processed)
        /\ Len(segmented_preds) <= Len(chunks)
        /\ \A k \in 1 .. Len(segmented_preds) :
              /\ segmented_preds[k].timestamp = chunks[k].timestamp
              /\ segmented_preds[k].text = chunks[k].text
              /\ segmented_preds[k].speaker = new_segments[ClaimingTurn(k)].speaker

\* C10 witness: an ungrouped call in which two turns of different speakers
\* claimed chunks.
C10_Witness ==
    /\ ~group_by_speaker
    /\ pc = "returned"
    /\ Len(segmented_preds) >= 2
    /\ \E k \in 1 .. Len(segmented_preds) - 1 :
          segmented_preds[k].speaker # segmented_preds[k + 1].speaker

\* C11: at every label change diarize_audio emits the turn of the run that
\* ends there, with the run's speaker, from the start of the run's first
\* segment to the start of the segment that changes the label, and the new
\* run begins at that segment; at the end of the input it emits the turn from
\* the start of the last run to the end of the last segment.  One segment
\* gives one turn, with that segment's interval and speaker.
C11_TurnPerRun ==
    (pc \in {"diarize_audio", "returned"} /\ i >= 1) =>
        LET runs == Cardinality(RunStarts(i))
            first(j) == segments[RunStart(i, j)]
        IN  /\ Len(new_segments) = IF pc = "returned" THEN runs ELSE runs - 1
            /\ \A j \in 1 .. runs - 1 :
                  new_segments[j] = Turn(first(j).segment.start,
                                         first(j + 1).segment.start,
                                         first(j).label)
            /\ prev_segment = first(runs)
            /\ pc = "returned" =>
                  /\ i = Len(segments)
                  /\ new_segments[runs] = Turn(first(runs).segment.start,
                                               segments[Len(segments)].segment.end,
                                               first(runs).label)
            /\ (pc = "returned" /\ Len(segments) = 1) =>
                  new_segments = <<Turn(segments[1].segment.start,
                                        segments[1].segment.end,
                                        segments[1].label)>>

\* C11 witness: a returned call in which a run of two segments was followed by
\* a label change at a segment that starts before the run's last segment ends.
C11_Witness ==
    /\ pc = "returned"
    /\ Len(new_segments) >= 2
    /\ Len(segments) >= 3
    /\ segments[1].label = segments[2].label
    /\ segments[2].label # segments[3].label
    /\ segments[3].segment.start < segments[2].segment.end
    /\ new_segments[1].segment.end = segments[3].segment.start

\* C12: group_by_speaker opens an output entry exactly at the first chunk and
\* at every chunk whose speaker differs from the chunk before; an entry has
\* the run's speaker, spans from the start of the run's first chunk to the end
\* of its last, and its text is the run's texts joined by one space, a text
\* being set without the space while the accumulated text is empty.
C12_EntryPerSpeakerRun ==
    pc \in {"group_by_speaker", "returned"} =>
        LET n == spk_idx - 1
            runs == Cardinality(SpeakerRunStarts(n))
        IN  /\ Len(new_speaker_chunks) = runs
            /\ \A j \in 1 .. runs :
                  LET a == SpeakerRunStart(n, j)
                      b == SpeakerRunEnd(n, j)
                  IN  /\ new_speaker_chunks[j].speaker = speakers[a].speaker
                      /\ new_speaker_chunks[j].timestamp =
                            <<speakers[a].timestamp[1], speakers[b].timestamp[2]>>
                      /\ new_speaker_chunks[j].text = SpacedTexts(a, b)
            /\ (pc = "returned" /\ Len(speakers) > 0) =>
                  /\ n = Len(speakers)
                  /\ result = new_speaker_chunks

\* C12 witness: a returned call on two chunks of one speaker, the first with
\* an empty text, merged into one entry whose text is the second chunk's.
C12_Witness ==
    /\ pc = "returned"
    /\ Len(calls) = 1
    /\ Len(speakers) = 2
    /\ speakers[1].speaker = speakers[2].speaker
    /\ speakers[1].text = << >>
    /\ speakers[2].text # << >>
    /\ Len(result) = 1
    /\ result[1].text = speakers[2].text
    /\ result[1].timestamp = <<speakers[1].timestamp[1], speakers[2].timestamp[2]>>

\* C13: called with no turns and some chunks, alignment returns the empty
\* list and does not raise: no chunk is in the output, with or without a
\* speaker.
C13_NoTurnsEmptyResult ==
    (Len(new_segments) = 0 /\ Len(chunks) > 0) =>
        /\ pc \in {"post_process", "returned", "grouped", "rejected"}
        /\ segmented_preds = << >>
        /\ pc = "grouped" => result = << >>

\* C13 witness: a call with no turns and two chunks has returned.
C13_Witness ==
    /\ pc = "returned"
    /\ Len(new_segments) = 0
    /\ Len(chunks) = 2
    /\ transcript = chunks
    /\ segmented_preds = << >>

\* C14: called with some turns and no chunks, alignment fails with an error
\* (the ValueError of np.argmin on the empty array, at the first turn) and
\* returns nothing: neither an empty nor a partial list.
C14_NoChunksRaises ==
    (Len(chunks) = 0 /\ Len(new_segments) > 0) =>
        /\ pc \in {"post_process", "ValueError"}
        /\ pc = "post_process" => seg_idx = 1
        /\ segmented_preds = << >>

\* C14 witness: a call with two turns and no chunks has raised.
C14_Witness ==
    /\ pc = "ValueError"
    /\ Len(chunks) = 0
    /\ Len(new_segments) = 2
    /\ seg_idx = 1

\* C15: diarize_audio on an empty segment list fails with an error (the
\* IndexError of segments[0]) and returns no turn list; it raises for no other
\* input.
C15_NoSegmentsRaises ==
    /\ Len(segments) = 0 =>
          /\ pc \in {"diarize_audio", "IndexError"}
          /\ new_segments = << >>
    /\ pc = "IndexError" => Len(segments) = 0

\* C15 witness: a call on the empty segment list has raised.
C15_Witness ==
    /\ pc = "IndexError"
    /\ Len(segments) = 0
    /\ i = 0
    /\ new_segments = << >>

\* C17: constructing a TranscriptionChunkData or a TranscriptionSpeakerData
\* raises whenever the timestamp has not exactly two values, or a negative
\* start, or a negative end, or an end before its start; a timestamp with
\* 0 <= start <= end is accepted and kept as given.
C17_TimestampValidatedAtConstruction ==
    pc \in {"constructed", "ValidationError"} =>
        LET ts == chunks[1].timestamp
            wellFormed == /\ Len(ts) = 2
                          /\ 0 <= ts[1]
                          /\ ts[1] <= ts[2]
        IN  /\ pc = "constructed" <=> wellFormed
            /\ pc = "constructed" =>
                  /\ Len(result) = 1
                  /\ result[1].timestamp = ts
            /\ pc = "ValidationError" => result = << >>

\* C17 witness: a construction was rejected for a timestamp of two values
\* that are not negative, the end before the start.
C17_Witness ==
    /\ pc = "ValidationError"
    /\ Len(chunks[1].timestamp) = 2
    /\ chunks[1].timestamp[2] >= 0
    /\ chunks[1].timestamp[2] < chunks[1].timestamp[1]

C18_LeftoverChunksDropped ==
    Len(chunks) > 0 =>
        /\ pc # "ValueError"
        /\ pc \in {"returned", "grouped", "rejected"} =>
              LET claimed == ClaimedAfter(Len(new_segments)) IN
              /\ transcript = SliceFrom(chunks, claimed)
              /\ \A k \in claimed + 1 .. Len(chunks) : Occurrences(k) = 0
              /\ \A j \in 1 .. Len(segmented_preds) :
                    segmented_preds[j].speaker \in Labels

\* C18 witness: a call that processed its only turn and returned one entry
\* with the second chunk left over, after which the result was built and
\* grouped without that chunk.
C18_Witness ==
    /\ pc = "grouped"
    /\ Len(new_segments) = 1
    /\ Processed = 1
    /\ Len(chunks) = 2
    /\ transcript = <<chunks[2]>>
    /\ Len(segmented_preds) = 1
    /\ Len(result) = 1

\* C19: alignment stops as soon as every chunk has been claimed.  A call with
\* chunks never raises, whatever the number of turns; once the transcript is
\* used up the call has returned at the turn that claimed the last chunk, and
\* the turns after that one have no entry in the output: grouped, there is one
\* entry per turn up to that one; ungrouped, one entry per chunk, each with
\* the speaker of a turn up to that one.
C19_StopsWhenChunksExhausted ==
    Len(chunks) > 0 =>
        /\ pc # "ValueError"
        /\ Len(transcript) = 0 =>
              /\ pc # "post_process"
              /\ Processed >= 1
              /\ ClaimedAfter(Processed - 1) < Len(chunks)
              /\ ClaimedAfter(Processed) = Len(chunks)
              /\ group_by_speaker => Len(segmented_preds) = Processed
              /\ ~group_by_speaker =>
                    /\ Len(segmented_preds) = Len(chunks)
                    /\ \A k \in 1 .. Len(segmented_preds) :
                          \E t \in 1 .. Processed :
                              segmented_preds[k].speaker = new_segments[t].speaker

\* C19 witness: a call with two turns whose first turn claimed both chunks
\* has returned one turn early, in grouped mode with one entry.
C19_Witness ==
    /\ pc = "returned"
    /\ group_by_speaker
    /\ Len(chunks) = 2
    /\ Len(transcript) = 0
    /\ Len(new_segments) = 2
    /\ Processed = 1
    /\ Len(segmented_preds) = 1

\* C20: with the end of the last chunk alone unknown, a turn cuts at that
\* chunk only when it is the one chunk left; the cut then uses up the
\* transcript and the call returns.
C20_UnknownEndChosenOnlyWhenAlone ==
    (pc \in {"post_process", "returned", "grouped", "rejected"} /\ Processed >= 1) =>
        LET cut == Len(chunks) - Len(transcript) IN
        chunks[cut].timestamp[2] = None =>
            /\ cut = Len(chunks)
            /\ upto_idx = 0
            /\ ClaimedAfter(Processed - 1) = Len(chunks) - 1
            /\ Len(transcript) = 0
            /\ Len(end_timestamps) = 0
            /\ pc # "post_process"

\* C20 witness: of two chunks the second has no end; the first turn cut at
\* the first chunk and the second turn at the second, the only one left, and
\* the call returned.
C20_Witness ==
    /\ pc = "returned"
    /\ Len(chunks) = 2
    /\ chunks[2].timestamp[2] = None
    /\ Processed = 2
    /\ upto_idx = 0
    /\ Len(transcript) = 0

C22_InputsNotMutated ==
    [][chunks' = chunks /\ new_segments' = new_segments]_vars

\* C22 witness: a returned call whose local transcript was cropped to nothing
\* while the caller's two chunks are still the first and the second word.
C22_Witness ==
    /\ pc = "returned"
    /\ Len(transcript) = 0
    /\ Len(chunks) = 2
    /\ chunks[1].text = Word(1)
    /\ chunks[2].text = Word(2)
    /\ Len(segmented_preds) >= 1

\* C23: group_by_speaker leaves the raw transcription alone: while a call
\* runs, the result it was called on keeps its speakers (every entry with its
\* timestamp and text), its chunks and its text, and the result the call
\* returns has those chunks and that text.
C23_GroupKeepsRawTranscription ==
    [][pc = "group_by_speaker" =>
          /\ speakers' = speakers
          /\ chunks' = chunks
          /\ self_text' = self_text
          /\ pc' = "returned" =>
                /\ result_chunks' = chunks
                /\ result_text' = self_text]_vars

\* C23 witness: a first call has returned one merged entry for two chunks of
\* one speaker; the result has the two chunks, and the first input entry still
\* has its own interval, which is not the merged one.
C23_Witness ==
    /\ pc = "returned"
    /\ Len(calls) = 1
    /\ Len(speakers) = 2
    /\ Len(result) = 1
    /\ Len(chunks) = 2
    /\ result_chunks = chunks
    /\ result_text = self_text
    /\ Len(self_text) > 0
    /\ speakers[1].timestamp # result[1].timestamp

\* C24: on a result without speaker data group_by_speaker returns that result
\* as it is: the speakers stay empty, the chunks and the text are the
\* original ones, and the call returns without an error or an iteration.
C24_NoSpeakersReturnsSelf ==
    (Len(speakers) = 0 /\ Len(calls) >= 1) =>
        /\ pc \in {"returned", "group_by_speaker"}
        /\ spk_idx = 1
        /\ new_speaker_chunks = << >>
        /\ result = << >>
        /\ calls[Len(calls)] = << >>
        /\ result_chunks = chunks
        /\ result_text = self_text

\* C24 witness: a call on a result with two chunks, a text and no speakers
\* has returned.
C24_Witness ==
    /\ pc = "returned"
    /\ Len(calls) = 1
    /\ speakers = << >>
    /\ Len(chunks) = 2
    /\ Len(self_text) = 2
    /\ result_chunks = chunks

\* C25: the chunks the turns claim are consecutive runs of the input, one
\* after the other in turn order, without a gap or an overlap, and together a
\* prefix of the input; a scan is made over the unclaimed chunks only.  Read
\* off the output: its texts, put one after the other, are the words of the
\* first chunks in input order, each entry has a word at least, and the lists
\* the next scan reads are the input without those chunks.
C25_ClaimsPartitionPrefix ==
    pc \in {"post_process", "returned", "grouped", "rejected"} =>
        LET cut == Len(chunks) - Len(transcript) IN
        /\ cut >= 0
        /\ JoinTexts(segmented_preds) = [k \in 1 .. cut |-> Alphabet[k]]
        /\ \A j \in 1 .. Len(segmented_preds) : Len(segmented_preds[j].text) >= 1
        /\ transcript = SliceFrom(chunks, cut)
        /\ end_timestamps = EndTimestamps(SliceFrom(chunks, cut))
        /\ group_by_speaker => Len(segmented_preds) = Processed
        /\ ~group_by_speaker => Len(segmented_preds) = cut

\* C25 witness: a grouped call of two turns in which the first turn claimed
\* the first chunk and the second turn the second.
C25_Witness ==
    /\ pc = "returned"
    /\ group_by_speaker
    /\ Len(segmented_preds) = 2
    /\ segmented_preds[1].text = Word(1)
    /\ segmented_preds[2].text = Word(2)
    /\ Len(transcript) = 0

\* The chunks the scans of turns 1 .. t read: the scan of a turn reads every
\* chunk the turns before it left unclaimed.
RECURSIVE ScannedBy(_)
ScannedBy(t) ==
    IF t = 0 THEN 0 ELSE ScannedBy(t - 1) + (Len(chunks) - ClaimedAfter(t - 1))

\* C26 as stated: each chunk is visited by exactly one closest-end scan, so
\* the chunk ends examined over the whole call are at most the chunks.
C26_EachChunkExaminedOnce ==
    examined <= Len(chunks)

\* C26, amended: the scan of a turn examines every chunk that is still
\* unclaimed, the ones it leaves to later turns included, and no claimed chunk;
\* a chunk is examined by every scan up to the one that claims it, and the
\* examinations of a call are the sum of the remaining lengths, at most
\* turns times chunks.
C26_EachScanExaminesAllRemaining ==
    /\ examined = ScannedBy(Processed)
    /\ examined <= Processed * Len(chunks)
    /\ examined >= Len(chunks) - Len(transcript)

\* C26 witness: two chunks and two turns, each turn claiming one chunk: the
\* second chunk was examined by both scans, three examinations in all.
C26_Witness ==
    /\ pc = "returned"
    /\ Len(chunks) = 2
    /\ Processed = 2
    /\ ClaimedAfter(1) = 1
    /\ examined = 3

\* A step of the loop of group_by_speaker that absorbs the chunk at spk_idx
\* into the run that is open.
AbsorbsChunk ==
    /\ pc = "group_by_speaker"
    /\ spk_idx' = spk_idx + 1
    /\ Len(new_speaker_chunks) > 0
    /\ Len(new_speaker_chunks') = Len(new_speaker_chunks)

\* C27 as stated: within a run the merged interval is monotonically extended:
\* as a further same-speaker chunk of a start-ordered input is absorbed, the
\* merged start stays and the merged end does not decrease.
C27_MergedIntervalMonotone ==
    [][AbsorbsChunk =>
          LET j == Len(new_speaker_chunks) IN
          /\ new_speaker_chunks'[j].timestamp[1] = new_speaker_chunks[j].timestamp[1]
          /\ new_speaker_chunks'[j].timestamp[2] >= new_speaker_chunks[j].timestamp[2]]_vars

\* C27, amended: as a further same-speaker chunk is absorbed, the merged
\* start stays the run's first start and the merged end becomes the end of the
\* absorbed chunk; the merged end does not decrease when the absorbed chunk
\* ends no earlier than the chunk before it, and decreases when it ends
\* earlier (a chunk nested in the one before it).
C27_MergedEndIsAbsorbedEnd ==
    [][AbsorbsChunk =>
          LET j == Len(new_speaker_chunks)
              old == new_speaker_chunks[j].timestamp
              new == new_speaker_chunks'[j].timestamp
              cur == speakers[spk_idx].timestamp
              prev == speakers[spk_idx - 1].timestamp
          IN  /\ new[1] = old[1]
              /\ new[2] = cur[2]
              /\ old[2] = prev[2]
              /\ cur[2] >= prev[2] => new[2] >= old[2]
              /\ cur[2] < prev[2] => new[2] < old[2]]_vars

\* C27 witness: two chunks of one speaker, the second starting and ending
\* later than the first, absorbed into one run from the first start to the
\* second end.
C27_Witness ==
    /\ pc = "group_by_speaker"
    /\ Len(speakers) = 2
    /\ spk_idx = 3
    /\ speakers[1].speaker = speakers[2].speaker
    /\ speakers[1].timestamp[1] < speakers[2].timestamp[1]
    /\ speakers[1].timestamp[2] < speakers[2].timestamp[2]
    /\ Len(new_speaker_chunks) = 1
    /\ new_speaker_chunks[1].timestamp =
          <<speakers[1].timestamp[1], speakers[2].timestamp[2]>>

\* The labels of the first n segments with consecutive duplicates collapsed.
RECURSIVE Collapsed(_)
Collapsed(n) ==
    IF n = 0 THEN << >>
    ELSE IF n > 1 /\ segments[n].label = segments[n - 1].label
         THEN Collapsed(n - 1)
         ELSE Append(Collapsed(n - 1), segments[n].label)

\* C28: coalescing produces maximal speaker runs: the speakers of the turns
\* are the segment labels with consecutive duplicates collapsed, adjacent
\* turns have different speakers, the turns are one more than the adjacent
\* segment pairs whose labels differ, and a turn starts where the first
\* segment of its run starts.
C28_TurnsAreMaximalRuns ==
    (pc = "returned" /\ Len(segments) >= 1) =>
        LET n == Len(segments)
            changes == {k \in 1 .. n - 1 : segments[k].label # segments[k + 1].label}
        IN  /\ [j \in 1 .. Len(new_segments) |-> new_segments[j].speaker] = Collapsed(n)
            /\ AdjacentSpeakersDiffer(new_segments)
            /\ Len(new_segments) = 1 + Cardinality(changes)
            /\ \A j \in 1 .. Len(new_segments) :
                  new_segments[j].segment.start = segments[RunStart(n, j)].segment.start

\* C28 witness: three segments labelled A, A, B, the second starting after
\* the first: two turns, A from the first segment's start and B.
C28_Witness ==
    /\ pc = "returned"
    /\ Len(segments) = 3
    /\ segments[1].label = segments[2].label
    /\ segments[2].label # segments[3].label
    /\ segments[1].segment.start < segments[2].segment.start
    /\ Len(new_segments) = 2
    /\ new_segments[1].speaker = segments[1].label
    /\ new_segments[1].segment.start = segments[1].segment.start
    /\ new_segments[2].speaker = segments[3].label

\* C29: every turn align processes claims at least one chunk, also a turn
\* that ends before every remaining chunk ends; so in grouped mode the output
\* has at most as many entries as turns and as chunks, and entry i has the
\* speaker of turn i.
C29_EveryProcessedTurnClaims ==
    pc \in {"post_process", "returned", "ValueError"} =>
        /\ Processed >= 1 => upto_idx >= 0
        /\ \A t \in 1 .. Processed : ClaimedAfter(t) > ClaimedAfter(t - 1)
        /\ Len(chunks) - Len(transcript) = ClaimedAfter(Processed)
        /\ Len(chunks) - Len(transcript) >= Processed
        /\ group_by_speaker =>
              /\ Len(segmented_preds) = Processed
              /\ Len(segmented_preds) <= Len(new_segments)
              /\ Len(segmented_preds) <= Len(chunks)
              /\ \A j \in 1 .. Len(segmented_preds) :
                    /\ segmented_preds[j].speaker = new_segments[j].speaker
                    /\ Len(segmented_preds[j].text) >= 1

\* C29 witness: a grouped call of two turns that each end before every chunk
\* still unclaimed ends; each turn claimed a chunk all the same.
C29_Witness ==
    /\ pc = "returned"
    /\ group_by_speaker
    /\ Processed = 2
    /\ Len(chunks) = 2
    /\ \A k \in 1 .. 2 : chunks[k].timestamp[2] # None
    /\ new_segments[1].segment.end < chunks[1].timestamp[2]
    /\ new_segments[1].segment.end < chunks[2].timestamp[2]
    /\ new_segments[2].segment.end < chunks[2].timestamp[2]
    /\ Len(segmented_preds) = 2
    /\ segmented_preds[2].speaker = new_segments[2].speaker

\* C30: start <= end is preserved by every stage: on valid inputs in start
\* order, every turn coalescing produces, every entry align produces in
\* grouped mode whose last claimed end is known, and every entry
\* group_by_speaker produces ends no earlier than it starts, although none of
\* the three validates the timestamps it assigns.
C30_StagesKeepStartBeforeEnd ==
    /\ \A j \in 1 .. Len(new_segments) :
          new_segments[j].segment.start <= new_segments[j].segment.end
    /\ group_by_speaker =>
          \A j \in 1 .. Len(segmented_preds) :
              segmented_preds[j].timestamp[2] # None =>
                  WellFormed(segmented_preds[j].timestamp[1],
                             segmented_preds[j].timestamp[2])
    /\ \A j \in 1 .. Len(new_speaker_chunks) :
          WellFormed(new_speaker_chunks[j].timestamp[1],
                     new_speaker_chunks[j].timestamp[2])
    /\ \A j \in 1 .. Len(result) :
          WellFormed(result[j].timestamp[1], result[j].timestamp[2])

\* C30 witness: a grouped align call whose first turn claimed two chunks that
\* start at different times; the entry runs from the first chunk's start to
\* the second chunk's end, an interval neither chunk was validated with.
C30_Witness ==
    /\ pc = "returned"
    /\ group_by_speaker
    /\ Len(chunks) = 2
    /\ chunks[1].timestamp[1] < chunks[2].timestamp[1]
    /\ chunks[2].timestamp[2] # None
    /\ Len(segmented_preds) = 1
    /\ segmented_preds[1].timestamp = <<chunks[1].timestamp[1], chunks[2].timestamp[2]>>
    /\ segmented_preds[1].timestamp[1] < segmented_preds[1].timestamp[2]

=============================================================================
